---------------------------- MODULE Spec2Model ----------------------------
(***************************************************************************)
(* State-machine model of RectangleRenderer                                *)
(* (src/src/renderer/webgl/RectangleRenderer.ts): the rectangle attribute  *)
(* buffer built by updateBackgrounds / onResize / onThemeChanged and the   *)
(* selection vertex and outline buffers built by updateSelection.          *)
(*                                                                         *)
(* Conventions.  A JavaScript typed array is a TLA+ sequence; element i of *)
(* the array (0-based) is element i + 1 of the sequence, see At and Put.   *)
(* Every float the program stores is a multiple of 1/255 (a pixel          *)
(* coordinate, an inset of -1, 0 or +1, or a colour byte divided by 255),  *)
(* so a float v is held as the integer 255 * v: Float(n) is the integer n  *)
(* as a float and Div255(n) is n / 255.  GL calls (program, buffer and     *)
(* draw state) are not part of the model.                                  *)
(***************************************************************************)
EXTENDS Integers, Sequences, FiniteSets, TLC

(***************************************************************************)
(* Program constants                                                       *)
(***************************************************************************)
INDICES_PER_RECTANGLE == 8
ATTRIBUTES_PER_SELECTION_VERTEX == 4
INITIAL_BUFFER_RECTANGLE_CAPACITY == 20 * INDICES_PER_RECTANGLE
SELECTION_VERTEX_COUNT == 10
SELECTION_OUTLINE_INDEX_COUNT == 16

\* Colour codes of ../atlas/Types and the test of ../atlas/CharAtlasUtils.
DEFAULT_COLOR == 256
INVERTED_DEFAULT_COLOR == 257
is256Color(colorCode) == colorCode < 256

\* The element array of the selection fill draw: six triangles, two per quad.
SelectionFillIndices ==
    << 0, 1, 2,  2, 1, 3,  4, 3, 5,  5, 3, 6,  5, 7, 8,  8, 7, 9 >>

(***************************************************************************)
(* Bounds of the model                                                     *)
(***************************************************************************)
\* Calls made on one renderer in a behaviour of SpecBg and of Spec.
MaxOps == 3
\* Palette entries 1 .. MaxAnsiCode appear in the exhaustively drawn grids.
MaxAnsiCode == 2
\* Rows of a selection that may lie above or below the viewport.
MaxOutside == 1

\* Viewport sizes <<rows, cols>> and cell sizes <<width, height>> in pixels.
\* LargeSize has 20 cells: as many as the initial buffer has records.
\* WideSize has more.
SmallSize == <<2, 3>>
LargeSize == <<4, 5>>
WideSize == <<4, 6>>
Sizes == {SmallSize, LargeSize, WideSize}
CellSizes == {<<2, 3>>, <<10, 20>>}
ThemeNames == {"dark", "light"}

(***************************************************************************)
(* Typed arrays and numbers                                                *)
(***************************************************************************)
Max(a, b) == IF a >= b THEN a ELSE b
Min(a, b) == IF a <= b THEN a ELSE b

Zeros(n) == [i \in 1..n |-> 0]

\* array[i]: reading past the end of a typed array gives undefined.
At(array, i) == IF i >= 0 /\ i < Len(array) THEN array[i + 1] ELSE "undefined"

\* array[i] = v: a write past the end of a typed array is dropped.
Put(array, i, v) ==
    IF i >= 0 /\ i < Len(array) THEN [array EXCEPT ![i + 1] = v] ELSE array

\* TypedArray.set(values): writes values at 0 .. Len(values) - 1.
SetPrefix(array, values) ==
    [i \in 1..Len(array) |-> IF i <= Len(values) THEN values[i] ELSE array[i]]

\* fill(array, value, start) of common/TypedArrayUtils: from start to the end.
fill(array, value, start) ==
    [i \in 1..Len(array) |-> IF i - 1 >= start THEN value ELSE array[i]]

\* expandFloat32Array(source, max) of ./WebglUtils, as the growable buffer's
\* contract states it: nothing happens when the buffer already has the
\* requested length; otherwise the new buffer is the larger of twice the old
\* length and the requested length, and holds the old contents.
expandFloat32Array(source, minFloats) ==
    IF Len(source) < minFloats
    THEN source \o Zeros(Max(2 * Len(source), minFloats) - Len(source))
    ELSE source

\* The float of the integer n, and the float n / 255, in units of 1/255.
Float(n) == 255 * n
Div255(n) == n

\* (rgba >> shift) & 0xFF
Channel(rgba, shift) == (rgba \div (2 ^ shift)) % 256

(***************************************************************************)
(* The colour manager's palettes (IColorManager.colors).  Every rgba is    *)
(* below 2^31.                                                             *)
(***************************************************************************)
Rgba(r, g, b, a) == ((r * 256 + g) * 256 + b) * 256 + a

ColorsOf(name) ==
    IF name = "dark"
    THEN [ background |-> [rgba |-> Rgba(0, 0, 0, 255)],
           foreground |-> [rgba |-> Rgba(127, 127, 127, 255)],
           selection  |-> [rgba |-> Rgba(64, 64, 64, 128)],
           ansi       |-> [c \in 0..255 |-> [rgba |-> Rgba(c % 128, 2 * (c % 128), 51, 255)]] ]
    ELSE [ background |-> [rgba |-> Rgba(127, 126, 125, 255)],
           foreground |-> [rgba |-> Rgba(1, 2, 3, 255)],
           selection  |-> [rgba |-> Rgba(100, 110, 120, 77)],
           ansi       |-> [c \in 0..255 |-> [rgba |-> Rgba(127 - (c % 128), c % 256, 204, 255)]] ]

VARIABLES
    terminal,           \* ITerminal: [rows, cols]
    dimensions,         \* IRenderDimensions: [scaledCellWidth, scaledCellHeight]
    theme,              \* the palette the colour manager holds (a ThemeNames)
    bgFloat,            \* _bgFloat
    selectionFloat,     \* _selectionFloat
    vertices,           \* _vertices: [count, attributes]
    selectionVertices,  \* _selectionVertices: [vertices, outlineIndices]
    model,              \* the IRenderModel of the last updateBackgrounds call
    selection,          \* the arguments of the last updateSelection call
    lastOp,             \* the last call made
    prev,               \* _vertices and _selectionVertices before the last call
    bgRepeat,           \* the last two calls were updateBackgrounds, same model
    ops                 \* calls made so far

vars == << terminal, dimensions, theme, bgFloat, selectionFloat, vertices,
           selectionVertices, model, selection, lastOp, prev, bgRepeat, ops >>

colors == ColorsOf(theme)

(***************************************************************************)
(* _colorToFloat32Array, _addRectangle, _addRectangleFloat                 *)
(***************************************************************************)
_colorToFloat32Array(color) ==
    << Div255(Channel(color.rgba, 24)), Div255(Channel(color.rgba, 16)),
       Div255(Channel(color.rgba, 8)),  Div255(Channel(color.rgba, 0)) >>

_addRectangle(array, offset, x1, y1, width, height, r, g, b, a) ==
    LET a0 == Put(array, offset, Float(x1))
        a1 == Put(a0, offset + 1, Float(y1))
        a2 == Put(a1, offset + 2, Float(width))
        a3 == Put(a2, offset + 3, Float(height))
        a4 == Put(a3, offset + 4, r)
        a5 == Put(a4, offset + 5, g)
        a6 == Put(a5, offset + 6, b)
    IN  Put(a6, offset + 7, a)

_addRectangleFloat(array, offset, x1, y1, width, height, color) ==
    LET a0 == Put(array, offset, Float(x1))
        a1 == Put(a0, offset + 1, Float(y1))
        a2 == Put(a1, offset + 2, Float(width))
        a3 == Put(a2, offset + 3, Float(height))
        a4 == Put(a3, offset + 4, color[1])
        a5 == Put(a4, offset + 5, color[2])
        a6 == Put(a5, offset + 6, color[3])
    IN  Put(a6, offset + 7, color[4])

\* _updateViewportRectangle with the cached background colour bg.
_updateViewportRectangle(attributes, term, dims, bg) ==
    _addRectangleFloat(attributes, 0, 0, 0,
                       term.cols * dims.scaledCellWidth,
                       term.rows * dims.scaledCellHeight, bg)

(***************************************************************************)
(* updateBackgrounds                                                       *)
(***************************************************************************)
\* The test that the buffer is too short for the record at offset.
TooShort(length, offset) == length < offset + 4

\* The length requested of expandFloat32Array.
ExpandTarget == terminal.rows * terminal.cols * INDICES_PER_RECTANGLE

\* The colour of a background code; null for any other code.
ColorOfBg(bg) ==
    IF bg = INVERTED_DEFAULT_COLOR THEN colors.foreground
    ELSE IF is256Color(bg) THEN colors.ansi[bg]
    ELSE "null"

_updateRectangle(attributes, offset, bg, startX, endX, y) ==
    LET color == ColorOfBg(bg)
        grown == IF TooShort(Len(attributes), offset)
                 THEN expandFloat32Array(attributes, ExpandTarget)
                 ELSE attributes
        x1 == startX * dimensions.scaledCellWidth
        y1 == y * dimensions.scaledCellHeight
        r  == Div255(Channel(color.rgba, 24))
        g  == Div255(Channel(color.rgba, 16))
        b  == Div255(Channel(color.rgba, 8))
    IN  _addRectangle(grown, offset, x1, y1,
                      (endX - startX) * dimensions.scaledCellWidth,
                      dimensions.scaledCellHeight, r, g, b, Float(1))

\* model.cells[modelIndex + 2] for the cell at column x of row y.
BgAt(m, x, y) == At(m.cells, (((y * terminal.cols) + x) * 4) + 2)

\* The loop state: the buffer, rectangleCount, currentStartX and currentBg.
\* const offset = rectangleCount++ * INDICES_PER_RECTANGLE; _updateRectangle(...)
EmitRectangle(s, endX, y) ==
    [s EXCEPT !.attributes = _updateRectangle(s.attributes,
                                 s.rectangleCount * INDICES_PER_RECTANGLE,
                                 s.currentBg, s.currentStartX, endX, y),
              !.rectangleCount = s.rectangleCount + 1]

\* One iteration of the loop over x.
CellStep(s, bg, x, y) ==
    IF bg # s.currentBg
    THEN LET s1 == IF s.currentBg # DEFAULT_COLOR THEN EmitRectangle(s, x, y) ELSE s
         IN  [s1 EXCEPT !.currentStartX = x, !.currentBg = bg]
    ELSE s

RECURSIVE ScanColumns(_, _, _, _)
ScanColumns(s, m, x, y) ==
    IF x < terminal.cols
    THEN ScanColumns(CellStep(s, BgAt(m, x, y), x, y), m, x + 1, y)
    ELSE s

\* RowStart with the two loop variables declared outside the loop over y.
RowStartCarried(s) == s

\* let currentStartX = -1; let currentBg = DEFAULT_COLOR;
RowStart(s) == [s EXCEPT !.currentStartX = -1, !.currentBg = DEFAULT_COLOR]

\* Finish rectangle if it's still going.
FinishRow(s, y) ==
    IF s.currentBg # DEFAULT_COLOR THEN EmitRectangle(s, terminal.cols, y) ELSE s

RECURSIVE ScanRows(_, _, _)
ScanRows(s, m, y) ==
    IF y < terminal.rows
    THEN ScanRows(FinishRow(ScanColumns(RowStart(s), m, 0, y), y), m, y + 1)
    ELSE s

\* FirstRectangle that appends to the records already counted.
FirstRectangleAppended(v) == Max(v.count, 1)

\* let rectangleCount = 1;
FirstRectangle(v) == 1

\* _vertices after updateBackgrounds(m) on _vertices = v.
UpdatedBackgrounds(v, m) ==
    LET s0 == [attributes |-> v.attributes, rectangleCount |-> FirstRectangle(v),
               currentStartX |-> -1, currentBg |-> DEFAULT_COLOR]
        s  == ScanRows(s0, m, 0)
    IN  [count |-> s.rectangleCount, attributes |-> s.attributes]

(***************************************************************************)
(* updateSelection                                                         *)
(***************************************************************************)
\* ClearedVertices with the start of the column select branch's fill.
ClearedVerticesFromFour(v) == fill(v, 0, 4 * 4)

\* fill(this._selectionVertices.vertices, 0, 0) of the no-selection branch.
ClearedVertices(v) == fill(v, 0, 0)

\* const startCol = model.viewportStartRow === startRow ? model.startCol : 0;
ClipStartCol(m, startRow) == IF m.viewportStartRow = startRow THEN m.startCol ELSE 0

\* const endCol = model.viewportEndRow === endRow ? model.endCol : terminal.cols;
ClipEndCol(m, endRow) == IF m.viewportEndRow = endRow THEN m.endCol ELSE terminal.cols

\* A vertex (x, y, insetX, insetY) as four floats.
Vertex(x, y, insetX, insetY) == << Float(x), Float(y), Float(insetX), Float(insetY) >>

\* The sixteen floats set in column select mode.
ColumnVertices(w, h, startCol, endCol, startRow, endRow) ==
    LET v0 == [x |-> startCol, y |-> startRow]
        v1 == [x |-> endCol,   y |-> startRow]
        v2 == [x |-> startCol, y |-> endRow + 1]
        v3 == [x |-> endCol,   y |-> endRow + 1]
    IN  Vertex(w * v0.x, h * v0.y, 1, 1) \o Vertex(w * v1.x, h * v1.y, -1, 1) \o
        Vertex(w * v2.x, h * v2.y, 1, 1) \o Vertex(w * v3.x, h * v3.y, -1, 1)

\* ColumnSelection without the fill of vertices 4..9.
ColumnSelectionUnfilled(sv, w, h, startCol, endCol, startRow, endRow) ==
    [vertices |-> SetPrefix(sv.vertices,
                            ColumnVertices(w, h, startCol, endCol, startRow, endRow)),
     outlineIndices |-> SetPrefix(sv.outlineIndices,
                                  << 0, 1, 1, 3, 3, 2, 2, 0, 0, 0, 0, 0, 0, 0, 0, 0 >>)]

\* The column select branch: set, fill, and the outline.
ColumnSelection(sv, w, h, startCol, endCol, startRow, endRow) ==
    [vertices |-> fill(SetPrefix(sv.vertices,
                                 ColumnVertices(w, h, startCol, endCol, startRow, endRow)),
                       0, 4 * 4),
     outlineIndices |-> SetPrefix(sv.outlineIndices,
                                  << 0, 1, 1, 3, 3, 2, 2, 0, 0, 0, 0, 0, 0, 0, 0, 0 >>)]

\* const startRowEndCol = startRow === endRow ? model.endCol : terminal.cols;
StartRowEndCol(m, startRow, endRow) ==
    IF startRow = endRow THEN m.endCol ELSE terminal.cols

\* MiddleRowsCount that counts the last row too.
MiddleRowsCountInclusive(startRow, endRow) == Max(endRow - startRow, 0)

\* const middleRowsCount = Math.max(endRow - startRow - 1, 0);
MiddleRowsCount(startRow, endRow) == Max(endRow - startRow - 1, 0)

\* The forty floats set in range select mode.
RangeVertices(w, h, startCol, endCol, startRow, endRow, startRowEndCol, middleRowsCount) ==
    LET v0 == [x |-> startCol, y |-> startRow]
        v4 == [x |-> 0, y |-> v0.y + 1]
        v6 == [x |-> startRowEndCol, y |-> v4.y + middleRowsCount]
        v9 == [x |-> endCol, y |-> endRow + 1]
    IN  Vertex(w * v0.x, h * v0.y,  1,  1) \o Vertex(w * v6.x, h * v0.y, -1,  1) \o
        Vertex(w * v0.x, h * v4.y,  1,  1) \o Vertex(w * v6.x, h * v4.y, -1,  1) \o
        Vertex(w * v4.x, h * v4.y,  1,  1) \o Vertex(w * v4.x, h * v6.y,  1,  1) \o
        Vertex(w * v6.x, h * v6.y, -1, -1) \o Vertex(w * v9.x, h * v6.y, -1, -1) \o
        Vertex(w * v4.x, h * v9.y,  1, -1) \o Vertex(w * v9.x, h * v9.y, -1, -1)

\* RangeOutline whose two-loop test is startCol >= endCol.
RangeOutlineTouching(startRow, endRow, startCol, endCol) ==
    IF endRow - startRow = 0
    THEN << 0, 1, 1, 3, 3, 2, 2, 0, 0, 0, 0, 0, 0, 0, 0, 0 >>
    ELSE IF endRow - startRow = 1 /\ startCol >= endCol
    THEN << 0, 1, 1, 3, 3, 2, 2, 0, 5, 7, 7, 9, 9, 8, 8, 5 >>
    ELSE << 0, 1, 1, 6, 6, 7, 7, 9, 9, 8, 8, 4, 4, 2, 2, 0 >>

\* The outline of range select mode.
RangeOutline(startRow, endRow, startCol, endCol) ==
    IF endRow - startRow = 0
    THEN << 0, 1, 1, 3, 3, 2, 2, 0, 0, 0, 0, 0, 0, 0, 0, 0 >>
    ELSE IF endRow - startRow = 1 /\ startCol > endCol
    THEN << 0, 1, 1, 3, 3, 2, 2, 0, 5, 7, 7, 9, 9, 8, 8, 5 >>
    ELSE << 0, 1, 1, 6, 6, 7, 7, 9, 9, 8, 8, 4, 4, 2, 2, 0 >>

\* The range select branch.
RangeSelection(sv, m, w, h, startCol, endCol, startRow, endRow) ==
    [vertices |-> SetPrefix(sv.vertices,
                    RangeVertices(w, h, startCol, endCol, startRow, endRow,
                                  StartRowEndCol(m, startRow, endRow),
                                  MiddleRowsCount(startRow, endRow))),
     outlineIndices |-> SetPrefix(sv.outlineIndices,
                                  RangeOutline(startRow, endRow, startCol, endCol))]

\* _selectionVertices after updateSelection(m, columnSelectMode) on sv.
UpdatedSelection(sv, m, columnSelectMode) ==
    IF ~m.hasSelection
    THEN [sv EXCEPT !.vertices = ClearedVertices(sv.vertices)]
    ELSE LET w == dimensions.scaledCellWidth
             h == dimensions.scaledCellHeight
             startRow == m.viewportCappedStartRow
             endRow == m.viewportCappedEndRow
             startCol == ClipStartCol(m, startRow)
             endCol == ClipEndCol(m, endRow)
         IN  IF columnSelectMode
             THEN ColumnSelection(sv, w, h, startCol, endCol, startRow, endRow)
             ELSE RangeSelection(sv, m, w, h, startCol, endCol, startRow, endRow)

(***************************************************************************)
(* The render models handed to updateBackgrounds                           *)
(***************************************************************************)
\* An IRenderModel for a rows x cols viewport whose cell (x, y) has background
\* bgOf[y * cols + x]; the other three numbers of a cell are the character
\* data and the foreground.
RenderModelOf(rows, cols, bgOf) ==
    [cells |-> [i \in 1..(rows * cols * 4) |->
                  LET k == (i - 1) % 4
                      c == (i - 1) \div 4
                  IN  IF k = 2 THEN bgOf[c] ELSE IF k = 3 THEN 7 ELSE 0]]

GridCodes == {DEFAULT_COLOR} \cup (1..MaxAnsiCode)

PatternNames == {"solid", "alternate", "stripes", "mixed"}

Pattern(p, x, y) ==
    CASE p = "solid"     -> 1
      [] p = "alternate" -> IF x % 2 = 0 THEN 1 ELSE 2
      [] p = "stripes"   -> IF x % 2 = 0 THEN INVERTED_DEFAULT_COLOR ELSE DEFAULT_COLOR
      [] p = "mixed"     -> IF (x + y) % 3 = 0 THEN DEFAULT_COLOR
                            ELSE IF (x + y) % 3 = 1 THEN 1 ELSE INVERTED_DEFAULT_COLOR

PatternModels(rows, cols) ==
    { RenderModelOf(rows, cols,
                    [c \in 0..(rows * cols - 1) |-> Pattern(p, c % cols, c \div cols)])
      : p \in PatternNames }

\* Every grid of a SmallSize viewport, the patterns for a larger one.
AllModels(rows, cols) ==
    IF rows * cols <= SmallSize[1] * SmallSize[2]
    THEN { RenderModelOf(rows, cols, f) : f \in [0..(rows * cols - 1) -> GridCodes] }
    ELSE PatternModels(rows, cols)

NoModel == [cells |-> << >>]
(***************************************************************************)
(* The selection models handed to updateSelection                          *)
(***************************************************************************)
\* An ISelectionRenderModel of a selection from (startCol, viewportStartRow)
\* to (endCol, viewportEndRow), rows relative to the top of a viewport of
\* `rows` rows; the capped rows are the rows clipped to the viewport.
SelectionModelOf(rows, viewportStartRow, viewportEndRow, startCol, endCol) ==
    [hasSelection |-> TRUE,
     viewportStartRow |-> viewportStartRow,
     viewportEndRow |-> viewportEndRow,
     viewportCappedStartRow |-> Max(viewportStartRow, 0),
     viewportCappedEndRow |-> Min(viewportEndRow, rows - 1),
     startCol |-> startCol,
     endCol |-> endCol]

ClearedSelectionModel ==
    [hasSelection |-> FALSE, viewportStartRow |-> 0, viewportEndRow |-> 0,
     viewportCappedStartRow |-> 0, viewportCappedEndRow |-> 0,
     startCol |-> 0, endCol |-> 0]

\* Every selection that shows in the viewport: it starts at most MaxOutside
\* rows above it, ends at most MaxOutside rows below it, and does not end
\* before it starts.
VisibleSelections(rows, cols) ==
    { SelectionModelOf(rows, r[1], r[2], c[1], c[2]) :
        r \in { q \in ((0 - MaxOutside)..(rows - 1)) \X (0..(rows - 1 + MaxOutside)) :
                  q[1] <= q[2] },
        c \in (0..cols) \X (0..cols) }

SelectionCalls(rows, cols) ==
    ([model : VisibleSelections(rows, cols), columnSelectMode : BOOLEAN])
    \cup {[model |-> ClearedSelectionModel, columnSelectMode |-> FALSE]}

\* A few calls: no selection, one row, two rows whose parts do not overlap,
\* rows in between, a selection that continues below, a column selection.
ScenarioCalls(rows, cols) ==
    { [model |-> ClearedSelectionModel, columnSelectMode |-> FALSE],
      [model |-> SelectionModelOf(rows, rows - 1, rows - 1, 1, cols - 1),
       columnSelectMode |-> FALSE],
      [model |-> SelectionModelOf(rows, 0, 1, cols, 2), columnSelectMode |-> FALSE],
      [model |-> SelectionModelOf(rows, 0, rows - 1, 1, 2), columnSelectMode |-> FALSE],
      [model |-> SelectionModelOf(rows, rows - 1, rows, 1, 2), columnSelectMode |-> FALSE],
      [model |-> SelectionModelOf(rows, 0, rows - 1, 1, 2), columnSelectMode |-> TRUE] }

NoSelection == [model |-> ClearedSelectionModel, columnSelectMode |-> FALSE]

(***************************************************************************)
(* Construction                                                            *)
(***************************************************************************)
InitRenderer ==
    /\ \E sz \in Sizes : terminal = [rows |-> sz[1], cols |-> sz[2]]
    /\ \E cs \in CellSizes :
          dimensions = [scaledCellWidth |-> cs[1], scaledCellHeight |-> cs[2]]
    /\ theme \in ThemeNames
    /\ bgFloat = _colorToFloat32Array(colors.background)
    /\ selectionFloat = _colorToFloat32Array(colors.selection)
    /\ vertices = [count |-> 0, attributes |-> Zeros(INITIAL_BUFFER_RECTANGLE_CAPACITY)]
    /\ selectionVertices =
          [vertices |-> Zeros(SELECTION_VERTEX_COUNT * 4),
           outlineIndices |-> Zeros(SELECTION_OUTLINE_INDEX_COUNT)]
    /\ selection = NoSelection
    /\ lastOp = "constructor"
    /\ prev = [vertices |-> vertices, outlineIndices |-> selectionVertices.outlineIndices]
    /\ bgRepeat = FALSE
    /\ ops = 0

Init == InitRenderer /\ model = NoModel

Snapshot == [vertices |-> vertices, outlineIndices |-> selectionVertices.outlineIndices]

(***************************************************************************)
(* Operations                                                              *)
(***************************************************************************)
\* The viewport or the cell size changes and the renderer is told.
onResize(sz, cs) ==
    /\ terminal' = [rows |-> sz[1], cols |-> sz[2]]
    /\ dimensions' = [scaledCellWidth |-> cs[1], scaledCellHeight |-> cs[2]]
    /\ vertices' = [vertices EXCEPT !.attributes =
                       _updateViewportRectangle(vertices.attributes, terminal',
                                                dimensions', bgFloat)]
    /\ lastOp' = "onResize"
    /\ prev' = Snapshot
    /\ bgRepeat' = FALSE
    /\ UNCHANGED << theme, bgFloat, selectionFloat, selectionVertices, model, selection >>

\* The palette changes and the renderer is told.
onThemeChanged(t) ==
    /\ theme' = t
    /\ bgFloat' = _colorToFloat32Array(ColorsOf(t).background)
    /\ selectionFloat' = _colorToFloat32Array(ColorsOf(t).selection)
    /\ vertices' = [vertices EXCEPT !.attributes =
                       _updateViewportRectangle(vertices.attributes, terminal,
                                                dimensions, bgFloat')]
    /\ lastOp' = "onThemeChanged"
    /\ prev' = Snapshot
    /\ bgRepeat' = FALSE
    /\ UNCHANGED << terminal, dimensions, selectionVertices, model, selection >>

updateBackgrounds(m) ==
    /\ vertices' = UpdatedBackgrounds(vertices, m)
    /\ model' = m
    /\ lastOp' = "updateBackgrounds"
    /\ prev' = Snapshot
    /\ bgRepeat' = (lastOp = "updateBackgrounds" /\ model = m)
    /\ UNCHANGED << terminal, dimensions, theme, bgFloat, selectionFloat,
                    selectionVertices, selection >>

updateSelection(call) ==
    /\ selectionVertices' =
          UpdatedSelection(selectionVertices, call.model, call.columnSelectMode)
    /\ selection' = call
    /\ lastOp' = "updateSelection"
    /\ prev' = Snapshot
    /\ bgRepeat' = FALSE
    /\ UNCHANGED << terminal, dimensions, theme, bgFloat, selectionFloat,
                    vertices, model >>

\* A call that counts against MaxOps.
Counted(A) == ops < MaxOps /\ A /\ ops' = ops + 1

ResizeBg ==
    \E sz \in Sizes : \E cs \in CellSizes : Counted(onResize(sz, cs))
ThemeBg ==
    \E t \in ThemeNames : Counted(onThemeChanged(t))
BackgroundsBg ==
    \E m \in PatternModels(terminal.rows, terminal.cols) : Counted(updateBackgrounds(m))

NextBg == ResizeBg \/ ThemeBg \/ BackgroundsBg

SpecBg == Init /\ [][NextBg]_vars

\* The renderer with every operation, the selection calls a few.
Resize ==
    \E sz \in Sizes : \E cs \in CellSizes : Counted(onResize(sz, cs))
ThemeChange ==
    \E t \in ThemeNames : Counted(onThemeChanged(t))
Backgrounds ==
    \E m \in PatternModels(terminal.rows, terminal.cols) : Counted(updateBackgrounds(m))
Selection ==
    \E call \in ScenarioCalls(terminal.rows, terminal.cols) :
        Counted(updateSelection(call))

Next == Resize \/ ThemeChange \/ Backgrounds \/ Selection

Spec == Init /\ [][Next]_vars

\* updateSelection alone: any call after one of the few, one of the few
\* after any call.
SelectScenario ==
    \E call \in ScenarioCalls(terminal.rows, terminal.cols) :
        updateSelection(call) /\ UNCHANGED ops
SelectAny ==
    /\ selection \in ScenarioCalls(terminal.rows, terminal.cols)
    /\ \E call \in SelectionCalls(terminal.rows, terminal.cols) :
          updateSelection(call) /\ UNCHANGED ops

NextSel == SelectScenario \/ SelectAny

SpecSel == Init /\ [][NextSel]_vars

\* updateBackgrounds applied once to a drawn render model.
InitGrid == InitRenderer /\ model \in AllModels(terminal.rows, terminal.cols)

BackgroundsGrid ==
    lastOp = "constructor" /\ updateBackgrounds(model) /\ ops' = ops + 1

NextGrid == BackgroundsGrid

SpecGrid == InitGrid /\ [][NextGrid]_vars

(***************************************************************************)
(* What the background claims speak of                                     *)
(***************************************************************************)
\* The last call was updateBackgrounds, on the model held in `model`.
AfterBackgrounds == lastOp = "updateBackgrounds"

Cells == (0..(terminal.rows - 1)) \X (0..(terminal.cols - 1))
Bg(y, x) == BgAt(model, x, y)

\* The cells <<y, x>> where a maximal horizontal run of one non-default
\* colour begins.
RunStarts ==
    { c \in Cells : /\ Bg(c[1], c[2]) # DEFAULT_COLOR
                    /\ (c[2] = 0 \/ Bg(c[1], c[2] - 1) # Bg(c[1], c[2])) }

\* The number of cells of the run that begins at c.
RunLength(c) ==
    CHOOSE n \in 1..(terminal.cols - c[2]) :
        /\ \A d \in 0..(n - 1) : Bg(c[1], c[2] + d) = Bg(c[1], c[2])
        /\ (c[2] + n = terminal.cols \/ Bg(c[1], c[2] + n) # Bg(c[1], c[2]))

\* The place of the run that begins at c in row-major, left-to-right order.
RunSlot(c) ==
    1 + Cardinality({ d \in RunStarts :
                        d[1] * terminal.cols + d[2] < c[1] * terminal.cols + c[2] })

\* Record k lies inside the buffer.
InBuffer(attributes, k) ==
    (k * INDICES_PER_RECTANGLE) + INDICES_PER_RECTANGLE <= Len(attributes)

Field(attributes, k, i) == attributes[(k * INDICES_PER_RECTANGLE) + i + 1]

\* The cells whose pixel extent lies inside rectangle k of the buffer.
CellsCovered(k) ==
    LET a  == vertices.attributes
        w  == dimensions.scaledCellWidth
        h  == dimensions.scaledCellHeight
    IN  { c \in Cells :
            /\ Field(a, k, 0) <= Float(c[2] * w)
            /\ Float((c[2] + 1) * w) <= Field(a, k, 0) + Field(a, k, 2)
            /\ Field(a, k, 1) <= Float(c[1] * h)
            /\ Float((c[1] + 1) * h) <= Field(a, k, 1) + Field(a, k, 3) }

RunSlots == 1..(vertices.count - 1)

\* C1: after updateBackgrounds, count - 1 is the number of maximal
\* horizontal runs of one non-default colour, taken row by row.
C1_RunCount ==
    AfterBackgrounds => vertices.count - 1 = Cardinality(RunStarts)

\* C1 witness: a grid with two adjacent runs of different colours in one row
\* and a colour that continues from the end of a row into the next row.
C1_Witness ==
    /\ AfterBackgrounds
    /\ \E c \in Cells : /\ c[2] > 0
                         /\ Bg(c[1], c[2]) # DEFAULT_COLOR
                         /\ Bg(c[1], c[2] - 1) # DEFAULT_COLOR
                         /\ Bg(c[1], c[2]) # Bg(c[1], c[2] - 1)
    /\ \E y \in 1..(terminal.rows - 1) :
          /\ Bg(y, 0) # DEFAULT_COLOR
          /\ Bg(y, 0) = Bg(y - 1, terminal.cols - 1)
    /\ vertices.count - 1 = Cardinality(RunStarts)

\* C2: after updateBackgrounds, slots 1 .. count - 1 hold the runs in
\* row-major, left-to-right order, each one cell row high, at its run's pixel
\* position and of its run's pixel width (> 0); together they cover exactly
\* the non-default cells and no two of them overlap.
C2_RunRectangles ==
    AfterBackgrounds =>
      /\ \A k \in RunSlots : InBuffer(vertices.attributes, k)
      /\ \A c \in RunStarts :
            LET k == RunSlot(c)
                a == vertices.attributes
            IN  /\ k \in RunSlots
                /\ Field(a, k, 0) = Float(c[2] * dimensions.scaledCellWidth)
                /\ Field(a, k, 1) = Float(c[1] * dimensions.scaledCellHeight)
                /\ Field(a, k, 2) = Float(RunLength(c) * dimensions.scaledCellWidth)
                /\ Field(a, k, 2) > 0
                /\ Field(a, k, 3) = Float(dimensions.scaledCellHeight)
      /\ UNION { CellsCovered(k) : k \in RunSlots }
            = { c \in Cells : Bg(c[1], c[2]) # DEFAULT_COLOR }
      /\ \A j, k \in RunSlots : j # k => CellsCovered(j) \cap CellsCovered(k) = {}

\* C3: the buffer holds every record counted in count.
C3_CapacityHoldsCount ==
    Len(vertices.attributes) >= vertices.count * INDICES_PER_RECTANGLE

\* The viewport clear rectangle for the current viewport, cell size and theme.
ViewportRectangle ==
    << Float(0), Float(0),
       Float(terminal.cols * dimensions.scaledCellWidth),
       Float(terminal.rows * dimensions.scaledCellHeight) >>
    \o _colorToFloat32Array(colors.background)

\* C4: whenever count >= 1, slot 0 holds the viewport clear rectangle.
C4_SlotZeroIsViewport ==
    vertices.count >= 1 =>
        SubSeq(vertices.attributes, 1, INDICES_PER_RECTANGLE) = ViewportRectangle

\* Record k of a buffer, or << >> when it lies outside the buffer.
Record(attributes, k) ==
    IF InBuffer(attributes, k)
    THEN SubSeq(attributes, (k * INDICES_PER_RECTANGLE) + 1,
                (k * INDICES_PER_RECTANGLE) + INDICES_PER_RECTANGLE)
    ELSE << >>

\* C8: a second updateBackgrounds with the same model, size and palette
\* leaves count and every record of slots 0 .. count - 1 as the first did.
C8_Idempotent ==
    bgRepeat =>
      /\ vertices.count = prev.vertices.count
      /\ \A k \in 0..(vertices.count - 1) :
            Record(vertices.attributes, k) = Record(prev.vertices.attributes, k)

\* C8 witness: the repeated call follows a first call that grew the buffer.
C8_Witness ==
    /\ bgRepeat
    /\ vertices.count > 1
    /\ Len(vertices.attributes) > INITIAL_BUFFER_RECTANGLE_CAPACITY
    /\ \A k \in 0..(vertices.count - 1) :
          Record(vertices.attributes, k) = Record(prev.vertices.attributes, k)

(***************************************************************************)
(* What the selection claims speak of                                      *)
(***************************************************************************)
AfterSelection == lastOp = "updateSelection"
sel == selection.model
AfterClear == AfterSelection /\ ~sel.hasSelection
AfterRangeSelect == AfterSelection /\ sel.hasSelection /\ ~selection.columnSelectMode
AfterColumnSelect == AfterSelection /\ sel.hasSelection /\ selection.columnSelectMode

\* The column bounds clipped to the viewport: 0 when the selection starts
\* above it, the viewport's columns when it continues below it.
ClippedStartCol == IF sel.viewportStartRow < 0 THEN 0 ELSE sel.startCol
ClippedEndCol ==
    IF sel.viewportEndRow > terminal.rows - 1 THEN terminal.cols ELSE sel.endCol

\* Attribute j (x, y, insetX, insetY) of selection vertex v.
SV(v, j) == selectionVertices.vertices[(ATTRIBUTES_PER_SELECTION_VERTEX * v) + j + 1]

\* The vertex shader: a_position + a_size * u_inset.
Pos(v, inset) == << SV(v, 0) + (SV(v, 2) * inset), SV(v, 1) + (SV(v, 3) * inset) >>

SimpleLoop   == << 0, 1, 1, 3, 3, 2, 2, 0, 0, 0, 0, 0, 0, 0, 0, 0 >>
TwoLoops     == << 0, 1, 1, 3, 3, 2, 2, 0, 5, 7, 7, 9, 9, 8, 8, 5 >>
Staircase    == << 0, 1, 1, 6, 6, 7, 7, 9, 9, 8, 8, 4, 4, 2, 2, 0 >>

\* C5: in range select mode the outline is one of three sequences, chosen by
\* the rows and the clipped columns, whatever the outline was before.
C5_OutlineTable ==
    (AfterRangeSelect /\ sel.viewportCappedEndRow >= sel.viewportCappedStartRow) =>
        selectionVertices.outlineIndices =
            IF sel.viewportCappedEndRow = sel.viewportCappedStartRow THEN SimpleLoop
            ELSE IF /\ sel.viewportCappedEndRow = sel.viewportCappedStartRow + 1
                    /\ ClippedStartCol > ClippedEndCol
                 THEN TwoLoops
                 ELSE Staircase

\* C5 witness: the two-loop outline built over an earlier staircase.
C5_Witness ==
    /\ AfterRangeSelect
    /\ sel.viewportCappedEndRow = sel.viewportCappedStartRow + 1
    /\ ClippedStartCol > ClippedEndCol
    /\ prev.outlineIndices = Staircase
    /\ selectionVertices.outlineIndices = TwoLoops

\* C6: in column select mode vertices 0..3 are the corners of the block from
\* (startCol, startRow) to (endCol, endRow + 1), vertices 4..9 are zero and
\* the outline is the simple loop.
C6_ColumnSelect ==
    AfterColumnSelect =>
      LET w == dimensions.scaledCellWidth
          h == dimensions.scaledCellHeight
          top == h * sel.viewportCappedStartRow
          bottom == h * (sel.viewportCappedEndRow + 1)
      IN  /\ SubSeq(selectionVertices.vertices, 1, 16) =
                << Float(w * ClippedStartCol), Float(top),    Float(1),  Float(1),
                   Float(w * ClippedEndCol),   Float(top),    Float(-1), Float(1),
                   Float(w * ClippedStartCol), Float(bottom), Float(1),  Float(1),
                   Float(w * ClippedEndCol),   Float(bottom), Float(-1), Float(1) >>
          /\ \A v \in 4..9 : \A j \in 0..3 : SV(v, j) = 0
          /\ selectionVertices.outlineIndices = SimpleLoop

\* C6 witness: a column selection built over a range selection's staircase.
C6_Witness ==
    /\ AfterColumnSelect
    /\ prev.outlineIndices = Staircase
    /\ sel.viewportCappedEndRow > sel.viewportCappedStartRow
    /\ ClippedEndCol > ClippedStartCol
    /\ \A v \in 4..9 : \A j \in 0..3 : SV(v, j) = 0

\* C7 as stated: with no selection the vertex buffer is all zero and the
\* outline index array holds only index 0.
C7_ClearResetsOutline ==
    AfterClear =>
      /\ selectionVertices.vertices = Zeros(SELECTION_VERTEX_COUNT * 4)
      /\ selectionVertices.outlineIndices = Zeros(SELECTION_OUTLINE_INDEX_COUNT)

\* C7 amended: with no selection the vertex buffer is all zero, the outline
\* index array is as the call before left it, and each of its eight segments
\* has zero length at inset 1.
C7_ClearZeroesVertices ==
    AfterClear =>
      /\ selectionVertices.vertices = Zeros(SELECTION_VERTEX_COUNT * 4)
      /\ selectionVertices.outlineIndices = prev.outlineIndices
      /\ \A i \in 0..7 :
            Pos(selectionVertices.outlineIndices[(2 * i) + 1], 1)
              = Pos(selectionVertices.outlineIndices[(2 * i) + 2], 1)

\* C7 witness: no selection, after a call that built the staircase.
C7_Witness ==
    /\ AfterClear
    /\ prev.outlineIndices = Staircase
    /\ selectionVertices.outlineIndices = Staircase
    /\ selectionVertices.vertices = Zeros(SELECTION_VERTEX_COUNT * 4)

\* C9: in range select mode the geometry uses the clipped columns, and the
\* first row's right edge (x of vertices 1 and 3) is the clipped end column
\* when the capped rows are one row, the viewport's columns otherwise.
C9_ClippedColumns ==
    AfterRangeSelect =>
      LET w == dimensions.scaledCellWidth
          right == IF sel.viewportCappedStartRow = sel.viewportCappedEndRow
                   THEN ClippedEndCol ELSE terminal.cols
      IN  /\ SV(0, 0) = Float(w * ClippedStartCol)
          /\ SV(2, 0) = Float(w * ClippedStartCol)
          /\ SV(7, 0) = Float(w * ClippedEndCol)
          /\ SV(9, 0) = Float(w * ClippedEndCol)
          /\ SV(1, 0) = Float(w * right)
          /\ SV(3, 0) = Float(w * right)

\* The three quads of the fill draw, each two triangles (a, b, c), (c, b, d).
QuadCorners(q) ==
    [a |-> SelectionFillIndices[(6 * q) + 1], b |-> SelectionFillIndices[(6 * q) + 2],
     c |-> SelectionFillIndices[(6 * q) + 3], d |-> SelectionFillIndices[(6 * q) + 6]]

\* Quad q at inset 0 is an axis-aligned rectangle, left to right, top down.
QuadIsRectangle(q) ==
    LET k == QuadCorners(q)
        a == Pos(k.a, 0)  b == Pos(k.b, 0)  c == Pos(k.c, 0)  d == Pos(k.d, 0)
    IN  /\ SelectionFillIndices[(6 * q) + 4] = k.c
        /\ SelectionFillIndices[(6 * q) + 5] = k.b
        /\ a[2] = b[2] /\ c[2] = d[2] /\ a[1] = c[1] /\ b[1] = d[1]
        /\ a[1] <= b[1] /\ a[2] <= c[2]

\* Width times height of quad q, in units of 1/255 squared.
QuadArea(q) ==
    LET k == QuadCorners(q)
    IN  (Pos(k.b, 0)[1] - Pos(k.a, 0)[1]) * (Pos(k.c, 0)[2] - Pos(k.a, 0)[2])

\* The cells whose pixel extent lies inside quad q.
QuadCells(q) ==
    LET k == QuadCorners(q)
        w == dimensions.scaledCellWidth
        h == dimensions.scaledCellHeight
    IN  { c \in Cells :
            /\ Pos(k.a, 0)[1] <= Float(c[2] * w)
            /\ Float((c[2] + 1) * w) <= Pos(k.b, 0)[1]
            /\ Pos(k.a, 0)[2] <= Float(c[1] * h)
            /\ Float((c[1] + 1) * h) <= Pos(k.c, 0)[2] }

\* The selection lies inside the viewport, in reading order.
InsideViewport ==
    /\ sel.viewportStartRow = sel.viewportCappedStartRow
    /\ sel.viewportEndRow = sel.viewportCappedEndRow
    /\ sel.viewportStartRow <= sel.viewportEndRow
    /\ (sel.viewportStartRow = sel.viewportEndRow => sel.startCol <= sel.endCol)

\* The cells of a text-flow selection.
FlowCells ==
    { c \in Cells :
        IF sel.viewportStartRow = sel.viewportEndRow
        THEN c[1] = sel.viewportStartRow /\ sel.startCol <= c[2] /\ c[2] < sel.endCol
        ELSE \/ c[1] = sel.viewportStartRow /\ sel.startCol <= c[2]
             \/ sel.viewportStartRow < c[1] /\ c[1] < sel.viewportEndRow
             \/ c[1] = sel.viewportEndRow /\ c[2] < sel.endCol }

\* C10: for a range selection inside the viewport the three fill quads are
\* rectangles that cover exactly the cells of the text-flow selection, do
\* not overlap, and have zero area where they cover no cell.
C10_FillCoversFlow ==
    (AfterRangeSelect /\ InsideViewport) =>
      /\ \A q \in 0..2 : QuadIsRectangle(q)
      /\ UNION { QuadCells(q) : q \in 0..2 } = FlowCells
      /\ \A p, q \in 0..2 : p # q => QuadCells(p) \cap QuadCells(q) = {}
      /\ \A q \in 0..2 :
            QuadArea(q) = Cardinality(QuadCells(q))
                            * Float(dimensions.scaledCellWidth)
                            * Float(dimensions.scaledCellHeight)

\* C10 witness: a selection with a partial first row, rows in between and a
\* partial last row, all three quads covering cells.
C10_Witness ==
    /\ AfterRangeSelect /\ InsideViewport
    /\ sel.viewportEndRow > sel.viewportStartRow + 1
    /\ sel.startCol > 0 /\ sel.endCol < terminal.cols
    /\ \A q \in 0..2 : QuadCells(q) # {}
    /\ UNION { QuadCells(q) : q \in 0..2 } = FlowCells

=============================================================================
